---- MODULE Spec2Model ----
(***************************************************************************)
(* A model of sync-git-repository: the driver loop of src/main.py and the  *)
(* GitRepoManager of src/repo_manager.py (remote provisioning on the       *)
(* hosting service, and the fetch / transfer-branch / push synchronisation *)
(* of one working copy).                                                   *)
(*                                                                         *)
(* A working copy is a record                                              *)
(*   heads    : local branch name -> commit                                *)
(*   head     : the branch HEAD is attached to, or Detached                *)
(*   tags     : tag names (repo.references lists them beside the heads)    *)
(*   tracking : branch name b -> commit of the remote-tracking ref         *)
(*              origin/b                                                   *)
(*   remotes  : set of [name, url]                                         *)
(* Every git or hosting-service call takes the environment's verdict as an *)
(* input (fault = TRUE: the call raises for a reason outside the program,  *)
(* such as the network or a dirty working tree) and also raises where git  *)
(* itself refuses the call in the state at hand.                           *)
(***************************************************************************)
EXTENDS Integers, Sequences, FiniteSets, TLC

\* Bounds of the model.
MaxRepos == 3
MaxRuns == 2
MaxCommit == 3

\* ------------------------------------------------------------------ names
TransferBranch == "sync_temp"
LegacyBranch == "sync_origin_github"
HostedRemote == "github"
SourceRemote == "origin"
Detached == "(detached)"

\* URLs, per working copy: the source remote, the hosted repository's clone
\* URL, and some other URL an already registered remote may point at.
OriginUrl == "url-origin"
CloneUrl == "url-hosted"
StaleUrl == "url-other"

NoRefs == [b \in {} |-> 0]
NoRepo == [name |-> 0, id |-> 0]

Put(f, k, v) == [x \in (DOMAIN f) \cup {k} |-> IF x = k THEN v ELSE f[x]]
Drop(f, k) == [x \in (DOMAIN f) \ {k} |-> f[x]]

RemoteNames(g) == {m.name : m \in g.remotes}
RemoteUrls(g, n) == {m.url : m \in {x \in g.remotes : x.name = n}}

\* ------------------------------------------------ git, as the code uses it

\* [ref.name for ref in repo.references]: heads and tags by their short name,
\* remote-tracking refs as origin/<branch>.
References(g) ==
    (DOMAIN g.heads) \cup g.tags \cup {"origin/" \o b : b \in DOMAIN g.tracking}

\* get_default_branch: repo.active_branch raises on a detached HEAD, before
\* the refs are looked at, and the handler answers 'main'.
get_default_branch(g) ==
    IF g.head = Detached THEN "main"
    ELSE IF "main" \in References(g) THEN "main"
    ELSE IF "master" \in References(g) THEN "master"
    ELSE g.head

\* repo.heads[name].checkout(): IndexError when there is no such head.
Checkout(g, name, fault) ==
    IF name \notin DOMAIN g.heads \/ fault
    THEN [ok |-> FALSE, g |-> g]
    ELSE [ok |-> TRUE, g |-> [g EXCEPT !.head = name]]

\* A delete_head that reports success and leaves the branch in place.
DeleteHeadKeeps(g, name, fault) ==
    [ok |-> name \in DOMAIN g.heads /\ g.head # name /\ ~fault, g |-> g]

\* repo.delete_head(name, force=True): git refuses to delete the branch HEAD
\* is on.
DeleteHead(g, name, fault) ==
    IF name \notin DOMAIN g.heads \/ g.head = name \/ fault
    THEN [ok |-> FALSE, g |-> g]
    ELSE [ok |-> TRUE, g |-> [g EXCEPT !.heads = Drop(g.heads, name)]]

\* One iteration of cleanup_sync_branches' loop; every exception is logged
\* as a warning and the loop goes on.
CleanupBranch(g, name, faultCheckout, faultDelete) ==
    IF name \notin DOMAIN g.heads
    THEN [warned |-> FALSE, g |-> g]
    ELSE IF g.head = Detached
    THEN [warned |-> TRUE, g |-> g]
    ELSE LET co == IF g.head = name
                   THEN Checkout(g, get_default_branch(g), faultCheckout)
                   ELSE [ok |-> TRUE, g |-> g]
             del == DeleteHead(co.g, name, faultDelete)
         IN  IF ~co.ok THEN [warned |-> TRUE, g |-> g]
             ELSE [warned |-> ~del.ok, g |-> del.g]

\* A fetch whose failure is not raised.
FetchFailureIgnored(g, src, fault) ==
    IF SourceRemote \notin RemoteNames(g) \/ fault
    THEN [ok |-> TRUE, g |-> g]
    ELSE [ok |-> TRUE,
          g |-> [g EXCEPT !.tracking =
                   [b \in (DOMAIN g.tracking) \cup (DOMAIN src) |->
                       IF b \in DOMAIN src THEN src[b] ELSE g.tracking[b]]]]

\* repo.remote(source_remote).fetch(): ValueError without such a remote; the
\* fetch brings every branch of the source to origin/<branch> (no pruning).
Fetch(g, src, fault) ==
    IF SourceRemote \notin RemoteNames(g) \/ fault
    THEN [ok |-> FALSE, g |-> g]
    ELSE [ok |-> TRUE,
          g |-> [g EXCEPT !.tracking =
                   [b \in (DOMAIN g.tracking) \cup (DOMAIN src) |->
                       IF b \in DOMAIN src THEN src[b] ELSE g.tracking[b]]]]

\* repo.create_head(temp_branch, commit='origin/<default>'): git refuses when
\* the branch exists or the start point does not resolve.
CreateHead(g, default, fault) ==
    IF TransferBranch \in DOMAIN g.heads \/ default \notin DOMAIN g.tracking \/ fault
    THEN [ok |-> FALSE, g |-> g]
    ELSE [ok |-> TRUE,
          g |-> [g EXCEPT !.heads = Put(g.heads, TransferBranch, g.tracking[default])]]

\* A pull without refspec, merging the source's branch into the local
\* default branch as well.
PullIntoDefault(g, src, default, fault) ==
    IF default \notin DOMAIN src \/ fault
    THEN [ok |-> FALSE, g |-> g]
    ELSE [ok |-> TRUE,
          g |-> [g EXCEPT !.heads = Put(Put(g.heads, TransferBranch, src[default]),
                                        default, src[default]),
                          !.tracking = Put(g.tracking, default, src[default])]]

\* A pull whose failure is not raised.
PullFailureIgnored(g, src, default, fault) ==
    IF default \notin DOMAIN src \/ fault
    THEN [ok |-> TRUE, g |-> g]
    ELSE [ok |-> TRUE,
          g |-> [g EXCEPT !.heads = Put(g.heads, TransferBranch, src[default]),
                          !.tracking = Put(g.tracking, default, src[default])]]

\* A pull that brings origin/<default> up to date and leaves the transfer
\* branch where create_head put it.
PullTrackingOnly(g, src, default, fault) ==
    IF default \notin DOMAIN src \/ fault
    THEN [ok |-> FALSE, g |-> g]
    ELSE [ok |-> TRUE,
          g |-> [g EXCEPT !.tracking = Put(g.tracking, default, src[default])]]

\* source.pull(refspec='<default>:sync_temp'): fetches the source's branch
\* into the transfer branch and into origin/<default>.
Pull(g, src, default, fault) ==
    IF default \notin DOMAIN src \/ fault
    THEN [ok |-> FALSE, g |-> g]
    ELSE [ok |-> TRUE,
          g |-> [g EXCEPT !.heads = Put(g.heads, TransferBranch, src[default]),
                          !.tracking = Put(g.tracking, default, src[default])]]

\* target.push(temp_branch): GitPython raises only when the push produced no
\* result at all ("raise"); a rejected ref ("rejected") is flagged in the
\* returned PushInfo, which the code does not read, and nothing is raised.
\* repo.remote(target_remote) raises ValueError without such a remote.
PushOutcomes == {"ok", "raise", "rejected"}

PushUrl(g) == CHOOSE u \in RemoteUrls(g, HostedRemote) : TRUE

\* A push of every local branch under its own name.
PushAllHeads(g, up, outcome) ==
    IF HostedRemote \notin RemoteNames(g) \/ TransferBranch \notin DOMAIN g.heads
       \/ outcome = "raise"
    THEN [ok |-> FALSE, up |-> up]
    ELSE [ok |-> TRUE,
          up |-> [up EXCEPT ![PushUrl(g)] =
                    [b \in (DOMAIN @) \cup (DOMAIN g.heads) |->
                        IF b \in DOMAIN g.heads THEN g.heads[b] ELSE @[b]]]]

\* sync_repository, lines 94-96: the transfer branch alone is pushed, under
\* its own name.
Push(g, up, outcome) ==
    IF HostedRemote \notin RemoteNames(g) \/ TransferBranch \notin DOMAIN g.heads
       \/ outcome = "raise"
    THEN [ok |-> FALSE, up |-> up]
    ELSE IF outcome = "rejected"
    THEN [ok |-> TRUE, up |-> up]
    ELSE [ok |-> TRUE,
          up |-> [up EXCEPT ![PushUrl(g)] =
                    Put(up[PushUrl(g)], TransferBranch, g.heads[TransferBranch])]]

\* repo.create_remote(name, url): git refuses a name that is taken.
CreateRemote(g, name, url, fault) ==
    IF name \in RemoteNames(g) \/ fault
    THEN [ok |-> FALSE, g |-> g]
    ELSE [ok |-> TRUE, g |-> [g EXCEPT !.remotes = @ \cup {[name |-> name, url |-> url]}]]

\* A registration that re-points an existing remote at the clone URL.
RegisterRemoteUpdating(g, url, fault) ==
    IF fault THEN [ok |-> FALSE, g |-> g]
    ELSE [ok |-> TRUE,
          g |-> [g EXCEPT !.remotes =
                   {m \in @ : m.name # HostedRemote}
                       \cup {[name |-> HostedRemote, url |-> url]}]]

\* create_or_get_github_repo, "Add as remote if it doesn't exist".
RegisterRemote(g, url, fault) ==
    IF HostedRemote \notin RemoteNames(g)
    THEN CreateRemote(g, HostedRemote, url, fault)
    ELSE [ok |-> TRUE, g |-> g]

\* ------------------------------------------------------ hosting service

\* A lookup that never finds the repository.
LookupNeverFinds(h, name, fault) == NoRepo

\* get_existing_github_repo: every exception of the lookup is answered None.
HostedNamed(h, name) == {x \in h : x.name = name}

get_existing_github_repo(h, name, fault) ==
    IF fault \/ HostedNamed(h, name) = {}
    THEN NoRepo
    ELSE CHOOSE x \in HostedNamed(h, name) : TRUE

\* What the lookup met, as the service saw it.
LookupOutcome(h, name, fault) ==
    IF fault THEN "error"
    ELSE IF HostedNamed(h, name) = {} THEN "absent" ELSE "found"

\* github_client.get_user().create_repo(name, private=True): the service
\* refuses a name the account already has.
CreateRepoOk(h, name, fault) == ~fault /\ HostedNamed(h, name) = {}

\* ------------------------------------------------------- control points

\* A driver that syncs whatever Provision returned.
ShouldSyncAlways(ret) == TRUE

\* main: "if github_repo:" decides whether the repository is synced.
ShouldSync(ret) == ret # NoRepo

AfterProvision(ret) == IF ShouldSync(ret) THEN "resolve" ELSE "finished"

\* A sync_repository that lets the exception through to main.
SyncExceptPropagates == "crashed"

\* sync_repository's "except Exception": the error is logged and the method
\* returns to the driver.
SyncExcept == "finished"

\* create_or_get_github_repo's "except Exception": logged, None is returned.
ProvisionExcept == NoRepo

\* ------------------------------------------------------------------ state

VARIABLES
    nrepos,          \* find_git_repositories: the working copies 1..nrepos
    runsLeft,        \* how many more times the program will be started
    pc,              \* the statement main is at
    i,               \* main's loop: the working copy being processed
    git,             \* working copy -> its git state
    upstream,        \* working copy -> url -> the branches served there
    hosted,          \* the account's hosted repositories, [name, id]
    nextId,          \* the identity the service gives its next repository
    github_repo,     \* main's github_repo
    default_branch,  \* sync_repository's default_branch
    log,             \* working copy -> what this run logged about it, with
                     \* the calls made (provCalls, syncCalls), the steps
                     \* of its Sync in the order they ran (trace) and the
                     \* steps whose call failed for an outside reason
                     \* (faultAt; "rejected": a push refused without raising)
    prev,            \* working copy -> what the run before returned for it
    entry,           \* working copy -> its git state when this run started
    moving,          \* whether others push to the source while the program runs
    healthy          \* whether the program first met the working copy with
                     \* HEAD on a branch, no transfer branch left in it and
                     \* its default branch a local branch the source serves

vars == <<nrepos, runsLeft, pc, i, git, upstream, hosted, nextId, github_repo,
          default_branch, log, prev, entry, moving, healthy>>

Repos == 1..nrepos

FreshLog ==
    [prov |-> "none", lookup |-> "none", created |-> FALSE, ret |-> NoRepo,
     sync |-> "none", failedAt |-> "none", warned |-> FALSE,
     provFault |-> FALSE, syncFault |-> FALSE, headAtSync |-> "none",
     provCalls |-> 0, syncCalls |-> 0, trace |-> <<>>, faultAt |-> {}]

\* ------------------------------------------------------------ first states

OriginRemote == [name |-> SourceRemote, url |-> OriginUrl]

\* What each URL serves: the source its branches, the hosted repository
\* nothing yet, the other URL a repository with a main of its own.
Serving(src) ==
    [u \in {OriginUrl, CloneUrl, StaleUrl} |->
        IF u = OriginUrl THEN src
        ELSE IF u = StaleUrl THEN [b \in {"main"} |-> 1]
        ELSE NoRefs]

CleanGit(hostedRemotes) ==
    [heads |-> [b \in {"main"} |-> 1], head |-> "main", tags |-> {},
     tracking |-> NoRefs, remotes |-> {OriginRemote} \cup hostedRemotes]

BaseHeads ==
    {{"main"}, {"master"}, {"feature"}, {"master", "feature"},
     {"main", "master", "feature"}}

GitStates ==
    UNION {UNION {
        {[heads |-> [b \in bs \cup lo |-> 1], head |-> h, tags |-> t,
          tracking |-> NoRefs, remotes |-> {OriginRemote}] :
            h \in bs \cup lo \cup {Detached}, t \in {{}, {"main"}}} :
        lo \in SUBSET {TransferBranch, LegacyBranch}} : bs \in BaseHeads}

Sources ==
    {[b \in {"main"} |-> 2], [b \in {"master"} |-> 2], [b \in {"feature"} |-> 2], NoRefs}

HostedRemotes ==
    {{}, {[name |-> HostedRemote, url |-> StaleUrl]},
     {[name |-> HostedRemote, url |-> CloneUrl]}}

Idle ==
    /\ pc = "idle"
    /\ i = 1
    /\ nextId = nrepos + 1
    /\ github_repo = NoRepo
    /\ default_branch = "none"
    /\ log = [r \in Repos |-> FreshLog]
    /\ prev = [r \in Repos |-> NoRepo]
    /\ entry = git

\* One working copy in any branch state, not yet provisioned.
InitSync ==
    /\ nrepos = 1
    /\ runsLeft = MaxRuns
    /\ \E g \in GitStates, src \in Sources :
          /\ git = [r \in Repos |-> g]
          /\ upstream = [r \in Repos |-> Serving(src)]
          /\ healthy = (/\ g.head # Detached
                        /\ DOMAIN g.heads \cap {TransferBranch, LegacyBranch} = {}
                        /\ get_default_branch(g) \in DOMAIN g.heads
                        /\ get_default_branch(g) \in DOMAIN src)
    /\ moving = TRUE
    /\ hosted = {}
    /\ Idle

\* One clean working copy in any provisioning state.
InitProvision ==
    /\ nrepos = 1
    /\ runsLeft = MaxRuns
    /\ \E hr \in HostedRemotes : git = [r \in Repos |-> CleanGit(hr)]
    /\ upstream = [r \in Repos |-> Serving([b \in {"main"} |-> 2])]
    /\ hosted \in {{}, {[name |-> 1, id |-> 1]}}
    /\ moving = FALSE
    /\ healthy = TRUE
    /\ Idle

\* One run over a folder of clean working copies.
InitFolder ==
    /\ nrepos \in 0..MaxRepos
    /\ runsLeft = 1
    /\ git = [r \in Repos |-> CleanGit({})]
    /\ upstream = [r \in Repos |-> Serving([b \in {"main"} |-> 2])]
    /\ hosted = {}
    /\ moving = FALSE
    /\ healthy = TRUE
    /\ Idle

Init == InitSync \/ InitProvision \/ InitFolder

\* ---------------------------------------------------------------- actions

Faults(called) == IF called THEN BOOLEAN ELSE {FALSE}

\* main, lines 28-37: the repositories are listed; none: the run ends.
Start ==
    /\ pc \in {"idle", "done"}
    /\ runsLeft > 0
    /\ runsLeft' = runsLeft - 1
    /\ i' = 1
    /\ pc' = IF nrepos = 0 THEN "done" ELSE "lookup"
    /\ prev' = [r \in Repos |-> log[r].ret]
    /\ log' = [r \in Repos |-> FreshLog]
    /\ entry' = git
    /\ github_repo' = NoRepo
    /\ default_branch' = "none"
    /\ UNCHANGED <<nrepos, moving, healthy, git, upstream, hosted, nextId>>

\* create_or_get_github_repo, lines 119-127: the lookup.
Lookup ==
    /\ pc = "lookup"
    /\ \E fault \in BOOLEAN :
          LET found == get_existing_github_repo(hosted, i, fault)
          IN  /\ github_repo' = found
              /\ log' = [log EXCEPT ![i].lookup = LookupOutcome(hosted, i, fault),
                                    ![i].provFault = fault,
                                    ![i].provCalls = @ + 1]
              /\ pc' = IF found # NoRepo THEN "remote" ELSE "create"
    /\ UNCHANGED <<nrepos, moving, healthy, runsLeft, i, git, upstream, hosted, nextId,
                   default_branch, prev, entry>>

\* create_or_get_github_repo, lines 128-134: the repository is created; a
\* refusal is caught at line 150 and None returned.
CreateRepo ==
    /\ pc = "create"
    /\ \E fault \in BOOLEAN :
          IF CreateRepoOk(hosted, i, fault)
          THEN /\ hosted' = hosted \cup {[name |-> i, id |-> nextId]}
               /\ nextId' = nextId + 1
               /\ github_repo' = [name |-> i, id |-> nextId]
               /\ log' = [log EXCEPT ![i].created = TRUE,
                                     ![i].provFault = @ \/ fault]
               /\ pc' = "remote"
          ELSE /\ UNCHANGED <<hosted, nextId>>
               /\ github_repo' = ProvisionExcept
               /\ log' = [log EXCEPT ![i].created = TRUE,
                                     ![i].provFault = @ \/ fault,
                                     ![i].prov = "error",
                                     ![i].ret = ProvisionExcept]
               /\ pc' = AfterProvision(ProvisionExcept)
    /\ UNCHANGED <<nrepos, moving, healthy, runsLeft, i, git, upstream, default_branch, prev, entry>>

\* create_or_get_github_repo, lines 136-152: the remote is registered and the
\* hosted repository returned; main, lines 46-50, then syncs or skips.
Register ==
    /\ pc = "remote"
    /\ \E fault \in Faults(HostedRemote \notin RemoteNames(git[i])) :
          LET res == RegisterRemote(git[i], CloneUrl, fault)
              ret == IF res.ok THEN github_repo ELSE ProvisionExcept
          IN  /\ git' = [git EXCEPT ![i] = res.g]
              /\ github_repo' = ret
              /\ log' = [log EXCEPT ![i].provFault = @ \/ fault,
                                    ![i].prov = IF res.ok THEN "ok" ELSE "error",
                                    ![i].ret = ret]
              /\ pc' = AfterProvision(ret)
    /\ UNCHANGED <<nrepos, moving, healthy, runsLeft, i, upstream, hosted, nextId, default_branch,
                   prev, entry>>

\* What sync_repository's handler at lines 107-108 leaves behind.
SyncFailed(step, fault) ==
    /\ log' = [log EXCEPT ![i].sync = "error", ![i].failedAt = step,
                          ![i].syncFault = @ \/ fault,
                          ![i].trace = Append(@, pc),
                          ![i].faultAt = @ \cup (IF fault THEN {pc} ELSE {})]
    /\ pc' = SyncExcept

SyncStep(step, fault) ==
    /\ log' = [log EXCEPT ![i].syncFault = @ \/ fault,
                          ![i].trace = Append(@, pc),
                          ![i].faultAt = @ \cup
                              (IF ~fault THEN {}
                               ELSE IF pc = "push" THEN {"rejected"} ELSE {pc})]
    /\ pc' = step

\* sync_repository, lines 69-73: the default branch is resolved.
Resolve ==
    /\ pc = "resolve"
    /\ default_branch' = get_default_branch(git[i])
    /\ log' = [log EXCEPT ![i].sync = "running", ![i].headAtSync = git[i].head,
                          ![i].syncCalls = @ + 1, ![i].trace = Append(@, pc)]
    /\ pc' = "cleanup_temp"
    /\ UNCHANGED <<nrepos, moving, healthy, runsLeft, i, git, upstream, hosted, nextId,
                   github_repo, prev, entry>>

\* cleanup_sync_branches, lines 54-64, for one name of branches_to_remove.
Cleanup(name, next) ==
    /\ \E fc \in Faults(name \in DOMAIN git[i].heads /\ git[i].head = name),
          fd \in Faults(name \in DOMAIN git[i].heads /\ git[i].head # Detached) :
          LET res == CleanupBranch(git[i], name, fc, fd)
          IN  /\ git' = [git EXCEPT ![i] = res.g]
              /\ log' = [log EXCEPT ![i].warned = @ \/ res.warned,
                                    ![i].syncFault = @ \/ fc \/ fd,
                                    ![i].trace = Append(@, pc),
                                    ![i].faultAt = @ \cup
                                        (IF fc \/ fd THEN {pc} ELSE {})]
    /\ pc' = next
    /\ UNCHANGED <<nrepos, moving, healthy, runsLeft, i, upstream, hosted, nextId, github_repo,
                   default_branch, prev, entry>>

CleanupTemp == pc = "cleanup_temp" /\ Cleanup(TransferBranch, "cleanup_legacy")

CleanupLegacy == pc = "cleanup_legacy" /\ Cleanup(LegacyBranch, "fetch")

\* sync_repository, lines 82-84.
FetchSource ==
    /\ pc = "fetch"
    /\ \E fault \in BOOLEAN :
          LET res == Fetch(git[i], upstream[i][OriginUrl], fault)
          IN  /\ git' = [git EXCEPT ![i] = res.g]
              /\ IF res.ok THEN SyncStep("create_head", fault)
                           ELSE SyncFailed("fetch", fault)
    /\ UNCHANGED <<nrepos, moving, healthy, runsLeft, i, upstream, hosted, nextId, github_repo,
                   default_branch, prev, entry>>

\* sync_repository, line 87.
CreateTransfer ==
    /\ pc = "create_head"
    /\ \E fault \in BOOLEAN :
          LET res == CreateHead(git[i], default_branch, fault)
          IN  /\ git' = [git EXCEPT ![i] = res.g]
              /\ IF res.ok THEN SyncStep("checkout", fault)
                           ELSE SyncFailed("create_head", fault)
    /\ UNCHANGED <<nrepos, moving, healthy, runsLeft, i, upstream, hosted, nextId, github_repo,
                   default_branch, prev, entry>>

\* sync_repository, line 88.
CheckoutTransfer ==
    /\ pc = "checkout"
    /\ \E fault \in BOOLEAN :
          LET res == Checkout(git[i], TransferBranch, fault)
          IN  /\ git' = [git EXCEPT ![i] = res.g]
              /\ IF res.ok THEN SyncStep("pull", fault)
                           ELSE SyncFailed("checkout", fault)
    /\ UNCHANGED <<nrepos, moving, healthy, runsLeft, i, upstream, hosted, nextId, github_repo,
                   default_branch, prev, entry>>

\* sync_repository, line 91.
PullSource ==
    /\ pc = "pull"
    /\ \E fault \in BOOLEAN :
          LET res == Pull(git[i], upstream[i][OriginUrl], default_branch, fault)
          IN  /\ git' = [git EXCEPT ![i] = res.g]
              /\ IF res.ok THEN SyncStep("push", fault)
                           ELSE SyncFailed("pull", fault)
    /\ UNCHANGED <<nrepos, moving, healthy, runsLeft, i, upstream, hosted, nextId, github_repo,
                   default_branch, prev, entry>>

\* sync_repository, lines 94-96.
PushTarget ==
    /\ pc = "push"
    /\ \E outcome \in PushOutcomes :
          LET res == Push(git[i], upstream[i], outcome)
          IN  /\ upstream' = [upstream EXCEPT ![i] = res.up]
              /\ IF res.ok THEN SyncStep("restore", outcome # "ok")
                           ELSE SyncFailed("push", outcome # "ok")
    /\ UNCHANGED <<nrepos, moving, healthy, runsLeft, i, git, hosted, nextId, github_repo,
                   default_branch, prev, entry>>

\* sync_repository, lines 99-101 (and 104-105 when the checkout raises).
RestoreDefault ==
    /\ pc = "restore"
    /\ \E fault \in BOOLEAN :
          LET res == Checkout(git[i], default_branch, fault)
          IN  /\ git' = [git EXCEPT ![i] = res.g]
              /\ log' = [log EXCEPT ![i].syncFault = @ \/ fault,
                                    ![i].warned = @ \/ ~res.ok,
                                    ![i].sync = IF res.ok THEN @ ELSE "ok",
                                    ![i].trace = Append(@, pc),
                                    ![i].faultAt = @ \cup
                                        (IF fault THEN {pc} ELSE {})]
              /\ pc' = IF res.ok THEN "delete" ELSE "finished"
    /\ UNCHANGED <<nrepos, moving, healthy, runsLeft, i, upstream, hosted, nextId, github_repo,
                   default_branch, prev, entry>>

\* sync_repository, lines 102-105.
DeleteTransfer ==
    /\ pc = "delete"
    /\ \E fault \in BOOLEAN :
          LET res == DeleteHead(git[i], TransferBranch, fault)
          IN  /\ git' = [git EXCEPT ![i] = res.g]
              /\ log' = [log EXCEPT ![i].syncFault = @ \/ fault,
                                    ![i].warned = @ \/ ~res.ok,
                                    ![i].sync = "ok",
                                    ![i].trace = Append(@, pc),
                                    ![i].faultAt = @ \cup
                                        (IF fault THEN {pc} ELSE {})]
              /\ pc' = "finished"
    /\ UNCHANGED <<nrepos, moving, healthy, runsLeft, i, upstream, hosted, nextId, github_repo,
                   default_branch, prev, entry>>

\* Someone else pushes a commit to the source's branch between the fetch of
\* line 83 and the pull of line 91.
SourceMoves ==
    /\ moving
    /\ pc \in {"create_head", "checkout", "pull"}
    /\ default_branch \in DOMAIN upstream[i][OriginUrl]
    /\ upstream[i][OriginUrl][default_branch] < MaxCommit
    /\ upstream' = [upstream EXCEPT ![i][OriginUrl][default_branch] = @ + 1]
    /\ UNCHANGED <<nrepos, moving, healthy, runsLeft, pc, i, git, hosted,
                   nextId, github_repo, default_branch, log, prev, entry>>

\* A driver that ends the run after the repository it has processed.
FinishEndsRun ==
    /\ pc = "finished"
    /\ i' = i
    /\ pc' = "done"
    /\ UNCHANGED <<nrepos, moving, healthy, runsLeft, git, upstream, hosted,
                   nextId, github_repo, default_branch, log, prev, entry>>

\* main, lines 52-54: the next repository, or the end of the run.
Finish ==
    /\ pc = "finished"
    /\ IF i < nrepos
       THEN i' = i + 1 /\ pc' = "lookup"
       ELSE i' = i /\ pc' = "done"
    /\ UNCHANGED <<nrepos, moving, healthy, runsLeft, git, upstream, hosted, nextId, github_repo,
                   default_branch, log, prev, entry>>

Next ==
    \/ Start
    \/ Lookup
    \/ CreateRepo
    \/ Register
    \/ Resolve
    \/ CleanupTemp
    \/ CleanupLegacy
    \/ FetchSource
    \/ CreateTransfer
    \/ CheckoutTransfer
    \/ PullSource
    \/ PushTarget
    \/ RestoreDefault
    \/ DeleteTransfer
    \/ SourceMoves
    \/ Finish

Spec == Init /\ [][Next]_vars

\* The program's own steps once main is running: every call it makes
\* returns or raises, so a started run is never stuck at a statement.
Running ==
    \/ Lookup
    \/ CreateRepo
    \/ Register
    \/ Resolve
    \/ CleanupTemp
    \/ CleanupLegacy
    \/ FetchSource
    \/ CreateTransfer
    \/ CheckoutTransfer
    \/ PullSource
    \/ PushTarget
    \/ RestoreDefault
    \/ DeleteTransfer
    \/ Finish

LiveSpec == Init /\ [][Next]_vars /\ WF_vars(Running)

\* ----------------------------------------------------------------- claims

\* sync_repository has returned to main for working copy r in this run.
Returned(r) == log[r].sync \in {"ok", "error"}

\* main is back from processing working copy i.
BackInDriver == pc = "finished" /\ Returned(i)

TransferNames == {TransferBranch, LegacyBranch}

HostedRemotesOf(g) == {m \in g.remotes : m.name = HostedRemote}

\* C1: whenever sync_repository returns to the driver, after success or after
\* a failure at any step, the active branch is the resolved default branch
\* and not sync_temp. Stated for the working copies that were on the resolved
\* default branch, not itself a transfer branch, when Sync was invoked: there
\* the branch at the return is the code's doing.
C1_ActiveIsDefaultOnReturn ==
    (BackInDriver /\ log[i].headAtSync = default_branch
                  /\ default_branch \notin TransferNames) =>
        /\ git[i].head = default_branch
        /\ git[i].head # TransferBranch

C3_StaleBranchHealed ==
    (BackInDriver /\ log[i].headAtSync \in TransferNames /\ ~log[i].syncFault) =>
        /\ git[i].head = default_branch
        /\ log[i].headAtSync \notin DOMAIN git[i].heads

\* The precedence C4 claims: main if a branch main exists, else master if a
\* branch master exists, else the active branch, else the literal 'main'.
ClaimedDefaultBranch(g) ==
    IF "main" \in DOMAIN g.heads THEN "main"
    ELSE IF "master" \in DOMAIN g.heads THEN "master"
    ELSE IF g.head # Detached THEN g.head
    ELSE "main"

\* C4: for every repository state, a detached HEAD included,
\* get_default_branch returns main if a branch main exists, otherwise master
\* if a branch master exists, otherwise the active branch, and the literal
\* 'main' only when none of these resolves.
C4_DefaultBranchPrecedence ==
    pc = "cleanup_temp" => default_branch = ClaimedDefaultBranch(git[i])

\* C5: a Provision call in which no call to the service or to git fails
\* returns a hosted repository; one that follows a call which returned a
\* hosted repository leaves exactly one hosted repository of that name and
\* exactly one remote named github and, when nothing fails in it, returns
\* the same hosted repository without creating one.
C5_IdempotentProvisioning ==
    \A r \in Repos :
        /\ (log[r].prov # "none" /\ ~log[r].provFault) => log[r].ret # NoRepo
        /\ (prev[r] # NoRepo /\ log[r].prov # "none") =>
              /\ Cardinality(HostedNamed(hosted, r)) = 1
              /\ Cardinality(HostedRemotesOf(git[r])) = 1
              /\ ~log[r].provFault =>
                    /\ log[r].ret = prev[r]
                    /\ ~log[r].created

\* C5, witness: a second Provision has returned, with no fault, after a first
\* one that created the hosted repository and registered the remote.
C5_Witness ==
    \E r \in Repos :
        /\ prev[r] # NoRepo
        /\ prev[r].id > nrepos
        /\ log[r].prov = "ok"
        /\ ~log[r].provFault

\* C6: Provision attempts to create a hosted repository only when the lookup
\* reported that none of that name exists, and reports an error when the
\* lookup failed for another reason.
C6_CreateOnlyWhenAbsent ==
    \A r \in Repos :
        /\ log[r].created => log[r].lookup = "absent"
        /\ (log[r].lookup = "error" /\ log[r].prov # "none") => log[r].prov = "error"

\* C7: a remote named github that the working copy already has keeps its URL
\* through every step of every Provision call, whatever clone URL the service
\* returns, and no second remote of that name is added.
C7_ExistingRemoteUntouched ==
    [][\A r \in Repos :
          HostedRemotesOf(git[r]) # {} =>
              HostedRemotesOf(git'[r]) = HostedRemotesOf(git[r])]_vars

\* C7, witness: a second Provision has returned the hosted repository for a
\* working copy whose github remote points elsewhere than its clone URL.
C7_Witness ==
    \E r \in Repos :
        /\ prev[r] # NoRepo
        /\ log[r].prov = "ok"
        /\ HostedRemotesOf(entry[r]) = {[name |-> HostedRemote, url |-> StaleUrl]}
        /\ HostedRemotesOf(git[r]) = {[name |-> HostedRemote, url |-> StaleUrl]}

\* C8: no error leaves a repository's processing: the run never stops on an
\* exception, every repository before the current one has been processed to
\* its end whatever failed in it, and the run ends only when all have been.
C8_PerRepositoryIsolation ==
    /\ pc # "crashed"
    /\ pc \notin {"idle", "done"} =>
          \A r \in Repos : r < i => log[r].lookup # "none" /\ log[r].sync # "running"
    /\ (pc = "done" /\ runsLeft < MaxRuns) =>
          \A r \in Repos : log[r].lookup # "none" /\ log[r].sync # "running"

\* C8, witness: a run of three repositories has ended with the second failed
\* at fetch and the first and third synced.
C8_Witness ==
    /\ pc = "done"
    /\ nrepos = 3
    /\ log[1].sync = "ok"
    /\ log[2].sync = "error" /\ log[2].failedAt = "fetch"
    /\ log[3].sync = "ok"

\* C9: Sync is invoked for a repository only after Provision returned a
\* hosted repository for it in the same run; when Provision returned an
\* error, Sync is not invoked and the branches and the active branch are as
\* they were.
C9_SyncOnlyAfterProvision ==
    \A r \in Repos :
        /\ log[r].sync # "none" => (log[r].prov = "ok" /\ log[r].ret # NoRepo)
        /\ log[r].prov = "error" =>
              /\ log[r].sync = "none"
              /\ git[r].heads = entry[r].heads
              /\ git[r].head = entry[r].head

\* C9, witness: a run has ended in which Provision failed for one repository
\* and another was synced.
C9_Witness ==
    /\ pc = "done"
    /\ \E r \in Repos : log[r].prov = "error"
    /\ \E r \in Repos : log[r].sync = "ok"

\* C10: after any Sync attempt, succeeded or failed at any step, the working
\* copy has no branch named sync_temp. Stated for the working copies that had
\* no such branch when the run started, where the branch is the attempt's
\* own.
C10_NoTransferBranchAfterSync ==
    (BackInDriver /\ TransferBranch \notin DOMAIN entry[i].heads) =>
        TransferBranch \notin DOMAIN git[i].heads

\* The steps of a Sync whose failure ends it, lines 82-96.
FatalSteps == {"fetch", "create_head", "checkout", "pull", "push"}

\* C11: a failure in the stale-branch cleanup or in the final restore and
\* delete never fails the Sync: after a cleanup warning the Sync goes on to
\* the fetch and does not end in failure because of the branch the cleanup
\* left behind (a refused create of the transfer branch is then only ever
\* the start point not resolving), and a Sync whose push completed is
\* reported as succeeded whatever the restore and delete did.
C11_CleanupFailureNeverFails ==
    BackInDriver =>
        /\ "fetch" \in {log[i].trace[k] : k \in DOMAIN log[i].trace}
        /\ (log[i].warned /\ log[i].sync = "error"
                /\ log[i].failedAt = "create_head"
                /\ "create_head" \notin log[i].faultAt) =>
              default_branch \notin DOMAIN git[i].tracking
        /\ "restore" \in {log[i].trace[k] : k \in DOMAIN log[i].trace} =>
              log[i].sync = "ok"

C13_PushedCommitIsFetchedSource ==
    (BackInDriver /\ log[i].sync = "ok" /\ "rejected" \notin log[i].faultAt) =>
        /\ TransferBranch \in DOMAIN upstream[i][PushUrl(git[i])]
        /\ default_branch \in DOMAIN git[i].tracking
        /\ default_branch \in DOMAIN upstream[i][OriginUrl]
        /\ upstream[i][PushUrl(git[i])][TransferBranch]
              = git[i].tracking[default_branch]
        /\ upstream[i][PushUrl(git[i])][TransferBranch]
              = upstream[i][OriginUrl][default_branch]

\* C13, witness: a Sync has succeeded, with no call failing, in which the
\* source got a new commit after the fetch; the local default branch is two
\* commits behind what the target received.
C13_Witness ==
    /\ BackInDriver
    /\ log[i].sync = "ok"
    /\ log[i].faultAt = {}
    /\ default_branch \in DOMAIN git[i].heads
    /\ git[i].heads[default_branch] = 1
    /\ upstream[i][OriginUrl][default_branch] = 3
    /\ upstream[i][CloneUrl] = [b \in {TransferBranch} |-> 3]

\* C14: whatever earlier Sync attempts did to a working copy, and wherever
\* they failed, a later Sync in which no call fails for an outside reason
\* succeeds and ends on the resolved default branch with neither sync_temp
\* nor sync_origin_github left. Stated for the working copies the program
\* first met in a state a Sync succeeds from, so that what the Sync finds is
\* what the program's own earlier attempts left.
C14_RerunSafety ==
    (healthy /\ BackInDriver /\ log[i].faultAt = {}) =>
        /\ log[i].sync = "ok"
        /\ git[i].head = default_branch
        /\ TransferNames \cap DOMAIN git[i].heads = {}

\* C15: when the fetch from the source fails, that step ends the Sync in
\* failure: control is back in the driver with the error logged, the steps
\* that ran are the resolve, the cleanup and the fetch and none after it,
\* the local branches and the active branch are as the cleanup left them and
\* nothing was pushed.
C15_FetchFailureIsFatal ==
    [][(pc = "fetch" /\ "fetch" \in log'[i].faultAt) =>
          /\ pc' = "finished"
          /\ log'[i].sync = "error"
          /\ log'[i].failedAt = "fetch"
          /\ log'[i].trace = <<"resolve", "cleanup_temp", "cleanup_legacy", "fetch">>
          /\ git' = git
          /\ upstream' = upstream]_vars

\* C15, witness: a Sync entered on a leftover sync_temp has ended at a failed
\* fetch, after the cleanup removed the leftover branches.
C15_Witness ==
    /\ BackInDriver
    /\ log[i].failedAt = "fetch"
    /\ log[i].faultAt = {"fetch"}
    /\ log[i].headAtSync = TransferBranch
    /\ TransferNames \cap DOMAIN git[i].heads = {}
    /\ TransferBranch \notin DOMAIN upstream[i][CloneUrl]

\* The order of sync_repository's steps, lines 72-102.
SyncOrder ==
    <<"resolve", "cleanup_temp", "cleanup_legacy", "fetch", "create_head",
      "checkout", "pull", "push", "restore", "delete">>

Ran(r, step) == \E k \in DOMAIN log[r].trace : log[r].trace[k] = step

\* C16: the steps of one Sync run in the order resolve, cleanup, fetch,
\* create, checkout, pull, push, restore, delete, none twice and none
\* skipped; no step runs after a fetch, create, checkout, pull or push that
\* failed; the push is reached only with the fetched ref in place and the
\* transfer branch created from the source, checked out and pulled; restore
\* and delete run only after a push that did not raise.
C16_StepsInOrder ==
    /\ \A r \in Repos :
          /\ Len(log[r].trace) <= Len(SyncOrder)
          /\ \A k \in DOMAIN log[r].trace : log[r].trace[k] = SyncOrder[k]
          /\ \A s \in FatalSteps :
                s \in log[r].faultAt => log[r].trace[Len(log[r].trace)] = s
          /\ Ran(r, "restore") => (Ran(r, "push") /\ "push" \notin log[r].faultAt)
    /\ pc = "push" =>
          /\ default_branch \in DOMAIN git[i].tracking
          /\ TransferBranch \in DOMAIN git[i].heads
          /\ git[i].head = TransferBranch
          /\ git[i].heads[TransferBranch] = git[i].tracking[default_branch]
          /\ git[i].heads[TransferBranch] = upstream[i][OriginUrl][default_branch]

\* C16, witness: a Sync has run all its steps, in a run in which the source
\* got a commit after the fetch.
C16_Witness ==
    /\ BackInDriver
    /\ log[i].trace = SyncOrder
    /\ log[i].faultAt = {}
    /\ git[i].tracking[default_branch] = 3

\* C17: a run over any snapshot, whatever fails in it, ends, and has then
\* called Provision exactly once and Sync at most once for every repository;
\* while it runs, the repositories before the current one have had their
\* one Provision and are through their Sync, and those after it have had
\* no call yet.
C17_RunTerminatesOncePerRepository ==
    /\ [](\A r \in Repos :
            /\ log[r].provCalls <= 1
            /\ log[r].syncCalls <= 1
            /\ pc = "done" => log[r].provCalls = 1 /\ log[r].sync # "running"
            /\ (pc \notin {"idle", "done"} /\ r < i) =>
                  log[r].provCalls = 1 /\ log[r].sync # "running"
            /\ (pc \notin {"idle", "done"} /\ r > i) =>
                  log[r].provCalls = 0 /\ log[r].syncCalls = 0)
    /\ (pc \notin {"idle", "done"}) ~> (pc = "done")

\* C17, witness: a run over three repositories has ended with one synced,
\* one whose Provision failed and was not synced, and one whose Sync failed.
C17_Witness ==
    /\ pc = "done"
    /\ nrepos = 3
    /\ log[1].syncCalls = 1 /\ log[1].sync = "error"
    /\ log[2].provCalls = 1 /\ log[2].syncCalls = 0
    /\ log[3].syncCalls = 1 /\ log[3].sync = "ok"

\* C18: the default branch resolved by get_default_branch is never a
\* transfer-branch name, whatever state the working copy was left in.
C18_DefaultNeverTransferBranch ==
    pc = "cleanup_temp" => default_branch \notin TransferNames

\* The statements of sync_repository and of create_or_get_github_repo.
SyncPcs ==
    {"resolve", "cleanup_temp", "cleanup_legacy", "fetch", "create_head",
     "checkout", "pull", "push", "restore", "delete"}

ProvisionPcs == {"lookup", "create", "remote"}

OtherHeads(g) == [b \in (DOMAIN g.heads) \ TransferNames |-> g.heads[b]]

\* C19: no step of Sync adds, removes or re-points a remote of the working
\* copy, and none creates, deletes or moves a local branch other than
\* sync_temp and sync_origin_github, the default branch included; no step of
\* Provision changes the local branches or the active branch.
C19_FrameConditions ==
    [][\A r \in Repos :
          /\ pc \in SyncPcs =>
                /\ git'[r].remotes = git[r].remotes
                /\ OtherHeads(git'[r]) = OtherHeads(git[r])
          /\ pc \in ProvisionPcs =>
                /\ git'[r].heads = git[r].heads
                /\ git'[r].head = git[r].head]_vars

\* C19, witness: a Provision that registered the remote and a Sync that
\* pushed the source's newer commit have both returned, and the local
\* branches are, name and commit, the ones the run started with.
C19_Witness ==
    /\ BackInDriver
    /\ log[i].sync = "ok"
    /\ HostedRemotesOf(entry[i]) = {}
    /\ HostedRemotesOf(git[i]) # {}
    /\ DOMAIN entry[i].heads = {"master", "feature"}
    /\ git[i].heads = entry[i].heads
    /\ upstream[i][CloneUrl] = [b \in {TransferBranch} |-> 2]

====
